---- MODULE Spec2Model ----
(***************************************************************************)
(* A model of native/jni/core/magiskinit.c, the pre-init stage of Magisk.  *)
(*                                                                         *)
(* The file is modelled component by component.  Every component has its   *)
(* own variables (prefix cl_, sb_, vp_, ux_, sk_, and none for main) and   *)
(* its own specification, which leaves the other components' variables     *)
(* alone:                                                                  *)
(*   SpecCmdline  parse_cmdline                                            *)
(*   SpecBlock    parse_device, setup_block                                *)
(*   SpecPolicy   verify_precompiled, patch_sepolicy                       *)
(*   SpecUnxz     unxz                                                     *)
(*   SpecSocket   patch_socket_name, SOCKET_OFF                            *)
(*   Spec         main                                                     *)
(* Text is a sequence of characters, each a string; the bytes 0 and 1 are   *)
(* NUL and SOH.                                                            *)
(***************************************************************************)
EXTENDS Integers, Sequences, FiniteSets, TLC

VARIABLES
  \* parse_cmdline
  cl_input, cl_pos, cl_cmd, cl_pc,
  \* setup_block
  sb_sys, sb_entries, sb_partname, sb_pos, sb_dev, sb_pc, sb_ret, sb_node, sb_devdir,
  \* patch_sepolicy
  vp_env, vp_pc, vp_verify, vp_loaded, vp_cil, vp_rules, vp_dumped, vp_ret, vp_tried,
  \* unxz
  ux_in, ux_room, ux_pc, ux_produced, ux_written, ux_ret, ux_result, ux_avail_out, ux_idle,
  \* patch_socket_name
  sk_files, sk_orig, sk_SOCKET_OFF, sk_RAND, sk_calls, sk_searches, sk_log, sk_status,
  \* main
  argv, env, pc, cmd, fs, phases, did, execs, mounts

cl_vars == <<cl_input, cl_pos, cl_cmd, cl_pc>>
sb_vars == <<sb_sys, sb_entries, sb_partname, sb_pos, sb_dev, sb_pc, sb_ret, sb_node, sb_devdir>>
vp_vars == <<vp_env, vp_pc, vp_verify, vp_loaded, vp_cil, vp_rules, vp_dumped, vp_ret, vp_tried>>
ux_vars == <<ux_in, ux_room, ux_pc, ux_produced, ux_written, ux_ret, ux_result, ux_avail_out, ux_idle>>
sk_vars == <<sk_files, sk_orig, sk_SOCKET_OFF, sk_RAND, sk_calls, sk_searches, sk_log, sk_status>>
m_vars  == <<argv, env, pc, cmd, fs, phases, did, execs, mounts>>
vars == <<cl_vars, sb_vars, vp_vars, ux_vars, sk_vars, m_vars>>

cl_others == <<sb_vars, vp_vars, ux_vars, sk_vars, m_vars>>

sb_others == <<cl_vars, vp_vars, ux_vars, sk_vars, m_vars>>

vp_others == <<cl_vars, sb_vars, ux_vars, sk_vars, m_vars>>

ux_others == <<cl_vars, sb_vars, vp_vars, sk_vars, m_vars>>

sk_others == <<cl_vars, sb_vars, vp_vars, ux_vars, m_vars>>

m_others == <<cl_vars, sb_vars, vp_vars, ux_vars, sk_vars>>

NUL == "NUL"

(***************************************************************************)
(* Text helpers: the C library calls the file uses.                        *)
(***************************************************************************)
Drop(s, n) == SubSeq(s, n + 1, Len(s))

Take(s, n) == SubSeq(s, 1, IF n < Len(s) THEN n ELSE Len(s))

\* strncmp(tok, key, strlen(key)) == 0
HasPrefix(tok, key) == Len(tok) >= Len(key) /\ SubSeq(tok, 1, Len(key)) = key

IsSpace(c) == c \in {" ", "\n", "\t"}

RECURSIVE SkipSpace(_)
SkipSpace(s) == IF s # <<>> /\ IsSpace(Head(s)) THEN SkipSpace(Tail(s)) ELSE s

RECURSIVE WordOf(_)
WordOf(s) == IF s = <<>> \/ IsSpace(Head(s)) THEN <<>> ELSE <<Head(s)>> \o WordOf(Tail(s))

\* what a %s conversion reads from the rest of the input
ScanWord(rest) == WordOf(SkipSpace(rest))

\* the bytes of buf with w stored from index i (1-based), inside the buffer
WriteAt(buf, i, w) ==
  [k \in 1..Len(buf) |-> IF k >= i /\ k < i + Len(w) THEN w[k - i + 1] ELSE buf[k]]

\* the C string a char buffer holds: the bytes before the first NUL
RECURSIVE CStr(_)
CStr(buf) == IF buf = <<>> \/ Head(buf) = NUL THEN <<>> ELSE <<Head(buf)>> \o CStr(Tail(buf))

\* sscanf(tok, lit "%s", dst): nothing is stored unless lit matches and a word follows
sscanf_s(tok, lit, dst) ==
  IF HasPrefix(tok, lit) /\ ScanWord(Drop(tok, Len(lit))) # <<>>
  THEN WriteAt(dst, 1, ScanWord(Drop(tok, Len(lit))) \o <<NUL>>)
  ELSE dst

\* sscanf(tok, lit "%c", dst + off): one character, stored without a terminator
sscanf_c(tok, lit, dst, off) ==
  IF HasPrefix(tok, lit) /\ Len(tok) > Len(lit)
  THEN WriteAt(dst, off + 1, <<tok[Len(lit) + 1]>>)
  ELSE dst

(***************************************************************************)
(* parse_cmdline                                                           *)
(***************************************************************************)
K_SLOT == <<"a","n","d","r","o","i","d","b","o","o","t",".","s","l","o","t">>

K_SLOT_SUFFIX == K_SLOT \o <<"_","s","u","f","f","i","x">>

K_SKIP == <<"s","k","i","p","_","i","n","i","t","r","a","m","f","s">>

\* struct cmdline after the memset
ZeroCmd == [skip_initramfs |-> 0, slot |-> <<NUL, NUL, NUL>>]

\* the body of the strtok loop, for one token
TokStep(c, tok) ==
  IF HasPrefix(tok, K_SLOT_SUFFIX)
  THEN [c EXCEPT !.slot = sscanf_s(tok, K_SLOT_SUFFIX \o <<"=">>, @)]
  ELSE IF HasPrefix(tok, K_SLOT)
  THEN [c EXCEPT !.slot = sscanf_c(tok, K_SLOT \o <<"=">>, WriteAt(@, 1, <<"_">>), 1)]
  ELSE IF tok = K_SKIP
  THEN [c EXCEPT !.skip_initramfs = 1]
  ELSE c

RECURSIVE ParseToks(_, _)
ParseToks(c, toks) == IF toks = <<>> THEN c ELSE ParseToks(TokStep(c, Head(toks)), Tail(toks))

\* parse_cmdline as a function of the tokens strtok yields
parse_cmdline(toks) == ParseToks(ZeroCmd, toks)

\* the CmdlineInfo a struct cmdline stands for
CmdlineInfo(c) == [skip_initramfs |-> c.skip_initramfs = 1, slot_suffix |-> CStr(c.slot)]

\* the input: letters and suffixes short enough for slot[3] with its terminator
Letters == {"a", "b"}

Suffixes == {<<>>, <<"b">>, <<"_", "a">>, <<"_", "b">>}

SlotTok(l) == K_SLOT \o <<"=", l>>

SuffixTok(s) == K_SLOT_SUFFIX \o <<"=">> \o s

UnknownToks ==
  { <<"r", "o">>,
    K_SLOT \o <<"f", "o", "o", "=", "1">>,
    K_SLOT_SUFFIX \o <<"e", "d">>,
    K_SKIP \o <<"x">> }

Tokens ==
  {SlotTok(l) : l \in Letters} \cup {SuffixTok(s) : s \in Suffixes} \cup {K_SKIP} \cup UnknownToks

MaxTokens == 3

Cmdlines == UNION {[1..n -> Tokens] : n \in 0..MaxTokens}

InitCmdline ==
  /\ cl_input \in Cmdlines
  /\ cl_pos = 0
  /\ cl_cmd = [skip_initramfs |-> 1, slot |-> <<"?", "?", "?">>]
  /\ cl_pc = "memset"

\* lines 76-85: the struct is cleared and /proc/cmdline is read
ParseBegin ==
  /\ cl_pc = "memset"
  /\ cl_cmd' = ZeroCmd
  /\ cl_pos' = 1
  /\ cl_pc' = "loop"
  /\ UNCHANGED cl_input
  /\ UNCHANGED cl_others

\* lines 86-95: one iteration of the strtok loop
ParseToken ==
  /\ cl_pc = "loop"
  /\ cl_pos <= Len(cl_input)
  /\ cl_cmd' = TokStep(cl_cmd, cl_input[cl_pos])
  /\ cl_pos' = cl_pos + 1
  /\ UNCHANGED <<cl_input, cl_pc>>
  /\ UNCHANGED cl_others

\* strtok returns NULL
ParseEnd ==
  /\ cl_pc = "loop"
  /\ cl_pos > Len(cl_input)
  /\ cl_pc' = "done"
  /\ UNCHANGED <<cl_input, cl_pos, cl_cmd>>
  /\ UNCHANGED cl_others

NextCmdline == ParseBegin \/ ParseToken \/ ParseEnd

(***************************************************************************)
(* parse_device, setup_block                                               *)
(*                                                                         *)
(* A uevent file is the record of the values its lines give; a key with no *)
(* line (or a line whose value sscanf cannot convert) is NoNum or NoName.  *)
(***************************************************************************)
NoNum == 0 - 1

NoName == ""

NoPart == <<>>

\* struct device as an automatic variable nobody has written yet
JunkDev ==
  [major |-> 99, minor |-> 99, devname |-> "junk", partname |-> <<"j">>,
   path |-> <<"junk">>]

\* lines 102-116: partname is reset, every other field keeps its value
\* unless the uevent has the key
parse_device(dev, uevent) ==
  [dev EXCEPT
     !.partname = uevent.PARTNAME,
     !.major = IF uevent.MAJOR # NoNum THEN uevent.MAJOR ELSE @,
     !.minor = IF uevent.MINOR # NoNum THEN uevent.MINOR ELSE @,
     !.devname = IF uevent.DEVNAME # NoName THEN uevent.DEVNAME ELSE @]

\* line 138
DevPath(dev) == <<"/dev/block", dev.devname>>

NoNode == [path |-> <<>>, major |-> NoNum, minor |-> NoNum]

\* line 150
MkNode(dev) == [path |-> dev.path, major |-> dev.major, minor |-> dev.minor]

\* lines 128-142 as a function: the scan of the entries from position i on
RECURSIVE ScanBlock(_, _, _, _)
ScanBlock(dev, entries, partname, i) ==
  IF i > Len(entries) THEN [found |-> FALSE, dev |-> dev]
  ELSE IF parse_device(dev, entries[i]).partname = partname
       THEN [found |-> TRUE,
             dev |-> [parse_device(dev, entries[i]) EXCEPT
                        !.path = DevPath(parse_device(dev, entries[i]))]]
       ELSE ScanBlock(parse_device(dev, entries[i]), entries, partname, i + 1)

\* setup_block as a function: its return value, the struct and the node made
setup_block(dev, sys, entries, partname) ==
  IF ~sys THEN [ret |-> 1, dev |-> dev, node |-> NoNode]
  ELSE IF ScanBlock(dev, entries, partname, 1).found
       THEN [ret |-> 0, dev |-> ScanBlock(dev, entries, partname, 1).dev,
             node |-> MkNode(ScanBlock(dev, entries, partname, 1).dev)]
       ELSE [ret |-> 1, dev |-> ScanBlock(dev, entries, partname, 1).dev, node |-> NoNode]

SYSTEM == <<"S","Y","S","T","E","M">>

VENDOR == <<"V","E","N","D","O","R">>

Uevents ==
  [MAJOR : {NoNum, 8}, MINOR : {NoNum, 1, 2}, DEVNAME : {NoName, "sda1", "sda2"},
   PARTNAME : {NoPart, SYSTEM \o <<"_", "a">>, VENDOR \o <<"_", "a">>}]

MaxEntries == 2

\* a struct device left by an earlier, successful call
PrevDev ==
  [major |-> 7, minor |-> 7, devname |-> "loop7", partname |-> <<"O">>,
   path |-> <<"/dev/block", "loop7">>]

InitBlock ==
  /\ sb_sys \in BOOLEAN
  /\ sb_entries \in UNION {[1..n -> Uevents] : n \in 0..MaxEntries}
  /\ sb_partname \in {SYSTEM \o <<"_", "a">>, VENDOR \o <<"_", "a">>}
  /\ sb_dev \in {JunkDev, PrevDev}
  /\ sb_pos = 1
  /\ sb_pc = "opendir"
  /\ sb_ret = NoNum
  /\ sb_node = NoNode
  /\ sb_devdir = FALSE

\* lines 124-127
SbOpendir ==
  /\ sb_pc = "opendir"
  /\ IF sb_sys THEN sb_pc' = "readdir" /\ sb_ret' = sb_ret
               ELSE sb_pc' = "done" /\ sb_ret' = 1
  /\ UNCHANGED <<sb_sys, sb_entries, sb_partname, sb_pos, sb_dev, sb_node, sb_devdir>>
  /\ UNCHANGED sb_others

\* lines 128-142: one entry is read and parsed
SbReaddir ==
  /\ sb_pc = "readdir"
  /\ sb_pos <= Len(sb_entries)
  /\ IF parse_device(sb_dev, sb_entries[sb_pos]).partname = sb_partname
     THEN /\ sb_dev' = [parse_device(sb_dev, sb_entries[sb_pos]) EXCEPT
                          !.path = DevPath(parse_device(sb_dev, sb_entries[sb_pos]))]
          /\ sb_pc' = "mknod"
          /\ sb_pos' = sb_pos
     ELSE /\ sb_dev' = parse_device(sb_dev, sb_entries[sb_pos])
          /\ sb_pc' = "readdir"
          /\ sb_pos' = sb_pos + 1
  /\ UNCHANGED <<sb_sys, sb_entries, sb_partname, sb_ret, sb_node, sb_devdir>>
  /\ UNCHANGED sb_others

\* lines 143-146: the directory is exhausted
SbNotFound ==
  /\ sb_pc = "readdir"
  /\ sb_pos > Len(sb_entries)
  /\ sb_ret' = 1
  /\ sb_pc' = "done"
  /\ UNCHANGED <<sb_sys, sb_entries, sb_partname, sb_pos, sb_dev, sb_node, sb_devdir>>
  /\ UNCHANGED sb_others

\* lines 148-151
SbMknod ==
  /\ sb_pc = "mknod"
  /\ sb_devdir' = TRUE
  /\ sb_node' = MkNode(sb_dev)
  /\ sb_ret' = 0
  /\ sb_pc' = "done"
  /\ UNCHANGED <<sb_sys, sb_entries, sb_partname, sb_pos, sb_dev>>
  /\ UNCHANGED sb_others

NextBlock == SbOpendir \/ SbReaddir \/ SbNotFound \/ SbMknod

(***************************************************************************)
(* verify_precompiled, patch_sepolicy                                      *)
(*                                                                         *)
(* A signature file is [has, text]: whether the directory holds a file     *)
(* ending in .sha256, and its bytes.  Both directories can be opened.      *)
(***************************************************************************)
\* sizeof(sys_sha), sizeof(ven_sha)
ShaBufSize == 70

\* line 250: sys_sha[0] = 0
SysShaInit == <<>>

\* line 251: ven_sha[0] = 1, followed by whatever the stack held
VenShaInit(junk) == <<"SOH">> \o junk

\* lines 258-259 and 270-271: buf[read(fd, buf, sizeof(buf)) - 1] = '\0'.
\* The string left in buf is what was read without its last byte; a read of
\* nothing stores the NUL before the buffer and leaves the string as it was.
ReadSha(str, file) ==
  IF ~file.has \/ Len(file.text) = 0 THEN str
  ELSE CStr(Take(file.text, (IF Len(file.text) < ShaBufSize THEN Len(file.text) ELSE ShaBufSize) - 1))

\* lines 242-279
verify_precompiled(ven, plat, junk) ==
  ReadSha(SysShaInit, plat) = ReadSha(VenShaInit(junk), ven)

NoSource == "none"

\* lines 283-290 as a function of what access() and verify_precompiled() answer:
\* the branch taken
PolicyBranch(mono, pre, verified, cil) ==
  IF mono THEN "Plain"
  ELSE IF pre /\ verified THEN "Precompiled"
  ELSE IF cil THEN "CompiledFromCil"
  ELSE NoSource

ShaBytes == {"a", "b", "\n"}

MaxShaLen == 2

\* the signature files that exist are not empty
ShaTexts == UNION {[1..n -> ShaBytes] : n \in 1..MaxShaLen}

SigFiles == {[has |-> FALSE, text |-> <<>>]} \cup {[has |-> TRUE, text |-> t] : t \in ShaTexts}

StackJunk == {<<>>, <<"a">>}

InitPolicy ==
  /\ vp_env \in [mono : BOOLEAN, pre : BOOLEAN, cil : BOOLEAN, debug : BOOLEAN,
                 ven : SigFiles, plat : SigFiles, junk : StackJunk]
  /\ vp_pc = "mono"
  /\ vp_verify = "notcalled"
  /\ vp_loaded = <<>>
  /\ vp_cil = 0
  /\ vp_rules = 0
  /\ vp_dumped = <<>>
  /\ vp_ret = 0 - 1
  /\ vp_tried = <<>>

\* lines 283-284
VpMono ==
  /\ vp_pc = "mono"
  /\ vp_tried' = Append(vp_tried, "Plain")
  /\ IF vp_env.mono
     THEN vp_loaded' = Append(vp_loaded, "Plain") /\ vp_pc' = "commit"
     ELSE vp_loaded' = vp_loaded /\ vp_pc' = "precompiled"
  /\ UNCHANGED <<vp_env, vp_verify, vp_cil, vp_rules, vp_dumped, vp_ret>>
  /\ UNCHANGED vp_others

\* lines 285-286: verify_precompiled runs only when the image is readable
VpPrecompiled ==
  /\ vp_pc = "precompiled"
  /\ vp_tried' = Append(vp_tried, "Precompiled")
  /\ vp_verify' = IF vp_env.pre
                  THEN IF verify_precompiled(vp_env.ven, vp_env.plat, vp_env.junk)
                       THEN "equal" ELSE "differ"
                  ELSE "notcalled"
  /\ IF PolicyBranch(FALSE, vp_env.pre,
                     vp_env.pre /\ verify_precompiled(vp_env.ven, vp_env.plat, vp_env.junk),
                     FALSE) = "Precompiled"
     THEN vp_loaded' = Append(vp_loaded, "Precompiled") /\ vp_pc' = "commit"
     ELSE vp_loaded' = vp_loaded /\ vp_pc' = "cil"
  /\ UNCHANGED <<vp_env, vp_cil, vp_rules, vp_dumped, vp_ret>>
  /\ UNCHANGED vp_others

\* lines 287-290
VpCil ==
  /\ vp_pc = "cil"
  /\ vp_tried' = Append(vp_tried, "CompiledFromCil")
  /\ IF vp_env.cil
     THEN /\ vp_cil' = vp_cil + 1
          /\ vp_loaded' = Append(vp_loaded, "CompiledFromCil")
          /\ vp_pc' = "commit"
          /\ vp_ret' = vp_ret
     ELSE /\ vp_ret' = 1
          /\ vp_pc' = "done"
          /\ UNCHANGED <<vp_cil, vp_loaded>>
  /\ UNCHANGED <<vp_env, vp_verify, vp_rules, vp_dumped>>
  /\ UNCHANGED vp_others

\* lines 292-301
VpCommit ==
  /\ vp_pc = "commit"
  /\ vp_rules' = vp_rules + 1
  /\ vp_dumped' = IF vp_env.debug THEN <<"/sepolicy", "/sepolicy_debug">> ELSE <<"/sepolicy">>
  /\ vp_ret' = 0
  /\ vp_pc' = "done"
  /\ UNCHANGED <<vp_env, vp_verify, vp_loaded, vp_cil, vp_tried>>
  /\ UNCHANGED vp_others

NextPolicy == VpMono \/ VpPrecompiled \/ VpCil \/ VpCommit

(***************************************************************************)
(* unxz                                                                    *)
(*                                                                         *)
(* Output is counted in units; the output buffer holds BUFSIZE of them.    *)
(* ux_in describes the compressed input: out is what the whole stream      *)
(* decodes to, cut how much of it the bytes at hand decode to, and kind    *)
(* whether they are the complete stream, a prefix of it, or damaged from   *)
(* cut on.  ux_room is how much the target fd accepts; a bad fd accepts    *)
(* nothing.                                                                *)
(***************************************************************************)
BUFSIZE == 2

MaxOut == 5

LZMA_OK == "LZMA_OK"

LZMA_STREAM_END == "LZMA_STREAM_END"

LZMA_DATA_ERROR == "LZMA_DATA_ERROR"

LZMA_BUF_ERROR == "LZMA_BUF_ERROR"

Min(a, b) == IF a < b THEN a ELSE b

\* lzma_code(&strm, LZMA_RUN) with avail_out = BUFSIZE: the results it can give,
\* [n, ret]: n units decoded into the buffer and the value returned.
\* A stream whose last unit exactly fills the buffer may report its end in the
\* same call or in the next one.
LzmaCode(in, produced, idle) ==
  IF in.cut - produced > BUFSIZE
  THEN {[n |-> BUFSIZE, ret |-> LZMA_OK]}
  ELSE IF in.kind = "damaged"
  THEN {[n |-> in.cut - produced, ret |-> LZMA_DATA_ERROR]}
  ELSE IF in.kind = "prefix"
  THEN IF in.cut - produced = 0 /\ idle >= 1
       THEN {[n |-> 0, ret |-> LZMA_BUF_ERROR]}
       ELSE {[n |-> in.cut - produced, ret |-> LZMA_OK]}
  ELSE IF in.cut - produced = BUFSIZE
       THEN {[n |-> BUFSIZE, ret |-> LZMA_OK], [n |-> BUFSIZE, ret |-> LZMA_STREAM_END]}
       ELSE {[n |-> in.cut - produced, ret |-> LZMA_STREAM_END]}

\* line 320: the loop goes on
LoopAgain(avail_out, ret) == avail_out = 0 /\ ret = LZMA_OK

\* lines 325-327
UnxzResult(ret) == IF ret # LZMA_OK /\ ret # LZMA_STREAM_END THEN 1 ELSE 0

UxInputs ==
  {[initok |-> i, kind |-> "complete", out |-> o, cut |-> o] : i \in BOOLEAN, o \in 0..MaxOut}
  \cup {[initok |-> TRUE, kind |-> k, out |-> o, cut |-> c] :
          k \in {"prefix", "damaged"}, o \in 0..MaxOut, c \in 0..MaxOut}

InitUnxz ==
  /\ ux_in \in {i \in UxInputs : i.cut <= i.out}
  /\ ux_room \in 0..MaxOut
  /\ ux_pc = "init"
  /\ ux_produced = 0
  /\ ux_written = 0
  /\ ux_ret = "unset"
  /\ ux_result = 0 - 1
  /\ ux_avail_out = BUFSIZE
  /\ ux_idle = 0

\* lines 308-314
UxInit ==
  /\ ux_pc = "init"
  /\ IF ux_in.initok THEN ux_pc' = "loop" /\ ux_result' = ux_result
                     ELSE ux_pc' = "done" /\ ux_result' = 1
  /\ UNCHANGED <<ux_in, ux_room, ux_produced, ux_written, ux_ret, ux_avail_out, ux_idle>>
  /\ UNCHANGED ux_others

\* lines 315-320: one turn of the loop, decode then write
UxCode ==
  /\ ux_pc = "loop"
  /\ \E r \in LzmaCode(ux_in, ux_produced, ux_idle) :
       /\ ux_ret' = r.ret
       /\ ux_avail_out' = BUFSIZE - r.n
       /\ ux_produced' = ux_produced + r.n
       /\ ux_written' = ux_written + Min(r.n, ux_room - ux_written)
       /\ ux_idle' = IF r.n = 0 THEN ux_idle + 1 ELSE 0
       /\ ux_pc' = IF LoopAgain(BUFSIZE - r.n, r.ret) THEN "loop" ELSE "end"
  /\ UNCHANGED <<ux_in, ux_room, ux_result>>
  /\ UNCHANGED ux_others

\* lines 322-327
UxEnd ==
  /\ ux_pc = "end"
  /\ ux_result' = UnxzResult(ux_ret)
  /\ ux_pc' = "done"
  /\ UNCHANGED <<ux_in, ux_room, ux_produced, ux_written, ux_ret, ux_avail_out, ux_idle>>
  /\ UNCHANGED ux_others

NextUnxz == UxInit \/ UxCode \/ UxEnd

(***************************************************************************)
(* patch_socket_name                                                       *)
(*                                                                         *)
(* sk_files maps a path to the image mmap_rw maps; offsets count from 0.   *)
(* sk_log records every call: the file, the offset memcpy wrote at, the    *)
(* image before and after, and whether the search loop ran.                *)
(***************************************************************************)
\* the placeholder with its terminator: memcmp and memcpy use sizeof(SOCKET_NAME)
SOCKET_NAME == <<"d", "3", NUL>>

TokenLen == Len(SOCKET_NAME)

\* the byte memcmp reads at offset j: past the end of a file that does not fill
\* its last page, the mapping reads as zero
ByteAt(buf, j) == IF j < Len(buf) THEN buf[j + 1] ELSE NUL

\* line 354
MatchAt(buf, i) == \A k \in 0..(TokenLen - 1) : ByteAt(buf, i + k) = SOCKET_NAME[k + 1]

\* lines 353-358: the offset the loop stores, or off when nothing matches
Search(buf, off) ==
  IF \E i \in 0..(Len(buf) - 1) : MatchAt(buf, i)
  THEN CHOOSE i \in 0..(Len(buf) - 1) :
         MatchAt(buf, i) /\ \A j \in 0..(i - 1) : ~MatchAt(buf, j)
  ELSE off

NeedSearchAlways(off) == TRUE

\* line 352
NeedSearch(off) == off < 0

\* gen_rand_str(buf, len): len - 1 characters and a terminator
RandChars == {"x", "d"}

gen_rand_str(len) == {r \o <<NUL>> : r \in [1..(len - 1) -> RandChars]}

\* line 361: the bytes of rand that land inside the image, when written at off
Memcpy(buf, off, rand) ==
  [k \in 1..Len(buf) |-> IF k - 1 >= off /\ k - 1 < off + Len(rand) THEN rand[k - off] ELSE buf[k]]

InBounds(off, size) == off >= 0 /\ off + TokenLen <= size

Files == {"A", "B"}

ImageBytes == {"d", "3", NUL}

MaxImage == 4

MaxCalls == 2

Images(n) == UNION {[1..m -> ImageBytes] : m \in 0..n}

\* the second file: an empty one, and one that ends inside the placeholder
OtherImages == {<<>>, <<"d", "3">>}

InitSocket ==
  /\ sk_files \in {f \in [Files -> Images(MaxImage)] : f["B"] \in OtherImages}
  /\ sk_orig = sk_files
  /\ sk_SOCKET_OFF = 0 - 1
  /\ sk_RAND = [k \in 1..TokenLen |-> NUL]
  /\ sk_calls = 0
  /\ sk_searches = 0
  /\ sk_log = <<>>
  /\ sk_status = "ok"

\* lines 347-363, one call.  A memcpy that leaves the image either faults or
\* stores the bytes that fall inside it.
PatchSocketName ==
  /\ sk_status = "ok"
  /\ sk_calls < MaxCalls
  /\ \E f \in Files, rand \in gen_rand_str(TokenLen), faults \in BOOLEAN :
       LET buf == sk_files[f]
           off == IF NeedSearch(sk_SOCKET_OFF) THEN Search(buf, sk_SOCKET_OFF)
                  ELSE sk_SOCKET_OFF
           ok  == InBounds(off, Len(buf))
           after == IF faults THEN buf ELSE Memcpy(buf, off, rand)
       IN /\ faults => ~ok
          /\ sk_SOCKET_OFF' = off
          /\ sk_RAND' = rand
          /\ sk_files' = [sk_files EXCEPT ![f] = after]
          /\ sk_status' = IF faults THEN "crashed" ELSE "ok"
          /\ sk_searches' = sk_searches + (IF NeedSearch(sk_SOCKET_OFF) THEN 1 ELSE 0)
          /\ sk_log' = Append(sk_log,
                         [file |-> f, off |-> off, size |-> Len(buf), before |-> buf,
                          after |-> after, rand |-> rand,
                          searched |-> NeedSearch(sk_SOCKET_OFF)])
  /\ sk_calls' = sk_calls + 1
  /\ UNCHANGED sk_orig
  /\ UNCHANGED sk_others

NextSocket == PatchSocketName

(***************************************************************************)
(* main                                                                    *)
(*                                                                         *)
(* fs maps the paths main touches to what is there ("" for nothing).  env  *)
(* is what the device offers: the kernel command line, the content of the  *)
(* compressed ramdisk, the block devices in sysfs and the split policy on  *)
(* the system and vendor partitions, and fs0, the root file system main    *)
(* starts on.  phases lists the phases run, did the steps taken inside     *)
(* them, execs counts the calls of execv.                                  *)
(***************************************************************************)
\* the names main compares basename(argv[0]) with, in the order of init_applet_main
init_applet == <<"magiskpolicy", "supolicy">>

Basename(path) == path[Len(path)]

Paths ==
  {"/init", "/init.bak", "/.backup/init", "/ramdisk.cpio.xz", "/ramdisk.cpio", "/sepolicy",
   "/etc/recovery.fstab", "/overlay", "/sbin", "/sbin/magisk", "/sbin/magiskinit",
   "/init.magisk.rc"}

\* the entry of / a path lies under
TopOf(p) ==
  CASE p = "/init" -> "init"
    [] p = "/init.bak" -> "init.bak"
    [] p = "/.backup/init" -> ".backup"
    [] p = "/ramdisk.cpio.xz" -> "ramdisk.cpio.xz"
    [] p = "/ramdisk.cpio" -> "ramdisk.cpio"
    [] p = "/sepolicy" -> "sepolicy"
    [] p = "/etc/recovery.fstab" -> "etc"
    [] p = "/overlay" -> "overlay"
    [] p \in {"/sbin", "/sbin/magisk", "/sbin/magiskinit"} -> "sbin"
    [] OTHER -> "init.magisk.rc"

\* frm_rf(root) under excl_list
frm_rf(f, excl) == [p \in Paths |-> IF TopOf(p) \in excl THEN f[p] ELSE ""]

\* line 405
ExclSkip == {"overlay", ".backup", "init.bak"}

\* line 419
ExclArchive == {"overlay", ".backup"}

\* cpio_extract_all, clone_dir: the entries of src are created over f
Overlay(f, src) == [p \in Paths |-> IF src[p] # "" THEN src[p] ELSE f[p]]

Empty == [p \in Paths |-> ""]

\* what parse_cpio finds in the decompressed /ramdisk.cpio
Archive(kind) ==
  IF kind = "stock"
  THEN [Empty EXCEPT !["/init"] = "ramdisk_init", !["/sepolicy"] = "stock", !["/sbin"] = "dir"]
  ELSE IF kind = "split"
  THEN [Empty EXCEPT !["/init"] = "ramdisk_init", !["/sbin"] = "dir"]
  ELSE Empty

\* the root directory of a system-as-root partition, without /system
SystemRoot == [Empty EXCEPT !["/init"] = "system_init", !["/sbin"] = "dir"]

\* link(from, to): fails when to exists or from does not
Link(f, from, to) == IF f[to] = "" /\ f[from] # "" THEN [f EXCEPT ![to] = f[from]] ELSE f

\* the parent directory a path is created in
ParentOk(f, p) == IF TopOf(p) = "sbin" /\ p # "/sbin" THEN f["/sbin"] # "" ELSE TRUE

\* rename(from, to)
Rename(f, from, to) ==
  IF f[from] # "" /\ ParentOk(f, to) THEN [f EXCEPT ![to] = f[from], ![from] = ""] ELSE f

\* the image dump_magisk leaves at a path it could create
MagiskImage == <<"3">> \o SOCKET_NAME \o <<"d">>

SigPair(kind) ==
  IF kind = "same"
  THEN [ven |-> [has |-> TRUE, text |-> <<"a", "b", "\n">>],
        plat |-> [has |-> TRUE, text |-> <<"a", "b", "\n">>]]
  ELSE [ven |-> [has |-> TRUE, text |-> <<"a", "b", "\n">>],
        plat |-> [has |-> TRUE, text |-> <<"b", "b", "\n">>]]

BlockEntry(part, minor, name) ==
  [MAJOR |-> 8, MINOR |-> minor, DEVNAME |-> name, PARTNAME |-> part \o <<"_", "a">>]

BlockCorpora ==
  { <<>>,
    <<BlockEntry(SYSTEM, 1, "sda1")>>,
    <<BlockEntry(VENDOR, 2, "sda2"), BlockEntry(SYSTEM, 1, "sda1")>> }

Argvs ==
  { [a0 |-> <<"init">>, args |-> <<>>],
    [a0 |-> <<"init">>, args |-> <<"selinux_setup">>],
    [a0 |-> <<"init">>, args |-> <<"-x", "magisk", "/tmp/magisk">>],
    [a0 |-> <<"init">>, args |-> <<"-x", "magiskrc", "/tmp/rc">>],
    [a0 |-> <<"init">>, args |-> <<"-x", "foo", "/tmp/foo">>],
    [a0 |-> <<"init">>, args |-> <<"-x">>],
    [a0 |-> <<"sbin", "magiskpolicy">>, args |-> <<"--live">>],
    [a0 |-> <<"sbin", "supolicy">>, args |-> <<"-x", "magisk", "/tmp/magisk">>] }

MainCmdlines ==
  { <<>>, <<K_SKIP>>, <<SlotTok("a")>>, <<SlotTok("a"), K_SKIP>> }

InitFs ==
  {[Empty EXCEPT !["/init"] = "magiskinit", !["/.backup/init"] = b,
                 !["/ramdisk.cpio.xz"] = x, !["/sepolicy"] = s,
                 !["/etc/recovery.fstab"] = r, !["/overlay"] = o, !["/sbin"] = d] :
     b \in {"", "orig_init"}, x \in {"", "xz"}, s \in {"", "stock"},
     r \in {"", "fstab"}, o \in {"", "dir"}, d \in {"", "dir"}}

InitMain ==
  /\ argv \in Argvs
  /\ fs \in InitFs
  /\ \E e \in [cmdline : MainCmdlines, archive : {"broken", "stock", "split"},
               blocks : BlockCorpora, pre : BOOLEAN, sigs : {"same", "differ"},
               cil : BOOLEAN] :
       /\ fs["/ramdisk.cpio.xz"] = "" => e.archive = "broken"
       /\ env = [cmdline |-> e.cmdline, archive |-> e.archive, blocks |-> e.blocks,
                 pre |-> e.pre, sigs |-> e.sigs, cil |-> e.cil, fs0 |-> fs]
  /\ pc = "start"
  /\ cmd = [skip_initramfs |-> 1, slot |-> <<"?", "?", "?">>]
  /\ phases = <<>>
  /\ did = <<>>
  /\ execs = 0
  /\ mounts = {}

\* lines 367-379: the applet table, then the -x mode.  With "-x" as the last
\* argument argv[2] is NULL and strcmp reads address 0, which Linux never maps:
\* the process faults.
MainDispatch ==
  /\ pc = "start"
  /\ IF \E i \in 1..Len(init_applet) : Basename(argv.a0) = init_applet[i]
     THEN /\ did' = <<"magiskpolicy_main">>
          /\ pc' = "exit"
     ELSE IF Len(argv.args) >= 1 /\ argv.args[1] = "-x"
     THEN IF Len(argv.args) < 2
          THEN did' = did /\ pc' = "crashed"
          ELSE IF argv.args[2] = "magisk"
          THEN did' = <<"dump_magisk">> /\ pc' = "exit"
          ELSE IF argv.args[2] = "magiskrc"
          THEN did' = <<"dump_magiskrc">> /\ pc' = "exit"
          ELSE did' = did /\ pc' = "stdio"
     ELSE did' = did /\ pc' = "stdio"
  /\ UNCHANGED <<argv, env, cmd, fs, phases, execs, mounts>>
  /\ UNCHANGED m_others

\* lines 381-392
MainStdio ==
  /\ pc = "stdio"
  /\ phases' = Append(phases, "stdio")
  /\ did' = did \o <<"null_stdio", "link_init_bak">>
  /\ fs' = Link(fs, "/init", "/init.bak")
  /\ pc' = "cmdline"
  /\ UNCHANGED <<argv, env, cmd, execs, mounts>>
  /\ UNCHANGED m_others

\* lines 394-395
MainParseCmdline ==
  /\ pc = "cmdline"
  /\ phases' = Append(phases, "cmdline")
  /\ cmd' = parse_cmdline(env.cmdline)
  /\ pc' = "populate"
  /\ UNCHANGED <<argv, env, fs, did, execs, mounts>>
  /\ UNCHANGED m_others

\* lines 403-406
MainWipe ==
  /\ pc = "populate"
  /\ cmd.skip_initramfs # 0
  /\ phases' = Append(phases, "populate")
  /\ did' = Append(did, "wipe")
  /\ fs' = frm_rf(fs, ExclSkip)
  /\ pc' = "earlymount"
  /\ UNCHANGED <<argv, env, cmd, execs, mounts>>
  /\ UNCHANGED m_others

\* lines 407-423: unxz to /ramdisk.cpio, parse_cpio, wipe, cpio_extract_all
MainArchive ==
  /\ pc = "populate"
  /\ cmd.skip_initramfs = 0
  /\ fs["/ramdisk.cpio.xz"] # ""
  /\ phases' = Append(phases, "populate")
  /\ did' = did \o <<"unxz", "wipe", "extract">>
  /\ fs' = Overlay(frm_rf([fs EXCEPT !["/ramdisk.cpio"] = "cpio"], ExclArchive),
                   Archive(env.archive))
  /\ pc' = "earlymount"
  /\ UNCHANGED <<argv, env, cmd, execs, mounts>>
  /\ UNCHANGED m_others

\* lines 424-428
MainRevert ==
  /\ pc = "populate"
  /\ cmd.skip_initramfs = 0
  /\ fs["/ramdisk.cpio.xz"] = ""
  /\ phases' = Append(phases, "populate")
  /\ did' = Append(did, "revert")
  /\ fs' = Link([fs EXCEPT !["/init"] = ""], "/.backup/init", "/init")
  /\ pc' = "earlymount"
  /\ UNCHANGED <<argv, env, cmd, execs, mounts>>
  /\ UNCHANGED m_others

\* line 435
NeedEarlyMount == cmd.skip_initramfs # 0 \/ fs["/sepolicy"] = ""

\* lines 435-466.  A partition is mounted when setup_block made its node.
MainEarlyMount ==
  /\ pc = "earlymount"
  /\ NeedEarlyMount
  /\ LET sys == setup_block(JunkDev, TRUE, env.blocks, SYSTEM \o CStr(cmd.slot))
         ven == setup_block(sys.dev, TRUE, env.blocks, VENDOR \o CStr(cmd.slot))
     IN /\ fs' = IF cmd.skip_initramfs # 0 /\ sys.ret = 0 THEN Overlay(fs, SystemRoot) ELSE fs
        /\ mounts' = {"/sys"}
                     \cup (IF sys.ret = 0 /\ cmd.skip_initramfs # 0
                           THEN {"/system_root", "/system"} ELSE {})
                     \cup (IF sys.ret = 0 /\ cmd.skip_initramfs = 0 THEN {"/system"} ELSE {})
                     \cup (IF ven.ret = 0 THEN {"/vendor"} ELSE {})
        /\ did' = did \o (IF cmd.skip_initramfs # 0 THEN <<"clone">> ELSE <<>>)
  /\ phases' = Append(phases, "earlymount")
  /\ pc' = "patch"
  /\ UNCHANGED <<argv, env, cmd, execs>>
  /\ UNCHANGED m_others

MainNoEarlyMount ==
  /\ pc = "earlymount"
  /\ ~NeedEarlyMount
  /\ pc' = "patch"
  /\ UNCHANGED <<argv, env, cmd, fs, phases, did, execs, mounts>>
  /\ UNCHANGED m_others

\* patch_sepolicy inside main: the split policy is readable on a mounted partition
MainPolicyBranch ==
  PolicyBranch(fs["/sepolicy"] # "",
               env.pre /\ "/vendor" \in mounts,
               verify_precompiled(SigPair(env.sigs).ven, SigPair(env.sigs).plat, <<>>),
               env.cil /\ "/system" \in mounts)

\* lines 473-485: overlay, patch_ramdisk, patch_sepolicy
MainPatch ==
  /\ pc = "patch"
  /\ fs["/etc/recovery.fstab"] = ""
  /\ phases' = Append(phases, "patch")
  /\ did' = did \o (IF fs["/overlay"] # "" THEN <<"overlay">> ELSE <<>>)
                \o <<"patch_ramdisk">>
                \o (IF MainPolicyBranch = NoSource THEN <<>>
                    ELSE <<MainPolicyBranch>>
                         \o (IF MainPolicyBranch = "CompiledFromCil"
                             THEN <<"compile_cil">> ELSE <<>>)
                         \o <<"magisk_rules", "dump_policy">>)
  /\ fs' = [fs EXCEPT !["/overlay"] = "",
                      !["/sepolicy"] = IF MainPolicyBranch = NoSource THEN @ ELSE "patched"]
  /\ pc' = "dump"
  /\ UNCHANGED <<argv, env, cmd, execs, mounts>>
  /\ UNCHANGED m_others

MainNoPatch ==
  /\ pc = "patch"
  /\ fs["/etc/recovery.fstab"] # ""
  /\ pc' = "cleanup"
  /\ UNCHANGED <<argv, env, cmd, fs, phases, did, execs, mounts>>
  /\ UNCHANGED m_others

\* lines 488-490: dump_magiskrc, dump_magisk, patch_socket_name.  Without /sbin
\* nothing is created, the mapping is empty, SOCKET_OFF stays -1 and the memcpy
\* starts before the mapping: it faults or it does not.
MainDump ==
  /\ pc = "dump"
  /\ LET made  == ParentOk(fs, "/sbin/magisk")
         image == IF made THEN MagiskImage ELSE <<>>
         off   == Search(image, 0 - 1)
     IN /\ fs' = [fs EXCEPT !["/init.magisk.rc"] = "magiskrc",
                            !["/sbin/magisk"] = IF made THEN "magisk" ELSE ""]
        /\ IF InBounds(off, Len(image))
           THEN /\ did' = did \o <<"dump_magiskrc", "dump_magisk", "randomize_token">>
                /\ pc' = "rename"
           ELSE /\ did' = did \o <<"dump_magiskrc">>
                /\ pc' \in {"crashed", "rename"}
  /\ UNCHANGED <<argv, env, cmd, phases, execs, mounts>>
  /\ UNCHANGED m_others

\* line 491
MainRename ==
  /\ pc = "rename"
  /\ fs' = Rename(fs, "/init.bak", "/sbin/magiskinit")
  /\ did' = Append(did, "rename")
  /\ pc' = "cleanup"
  /\ UNCHANGED <<argv, env, cmd, phases, execs, mounts>>
  /\ UNCHANGED m_others

\* lines 494-498
MainCleanup ==
  /\ pc = "cleanup"
  /\ phases' = Append(phases, "cleanup")
  /\ mounts' = mounts \ ((IF cmd.skip_initramfs = 0 THEN {"/system"} ELSE {}) \cup {"/vendor"})
  /\ pc' = "handover"
  /\ UNCHANGED <<argv, env, cmd, fs, did, execs>>
  /\ UNCHANGED m_others

\* line 501: execv replaces the process, or fails and main runs off its end
MainHandover ==
  /\ pc = "handover"
  /\ phases' = Append(phases, "handover")
  /\ execs' = execs + 1
  /\ pc' = IF fs["/init"] # "" THEN "handed" ELSE "exit"
  /\ UNCHANGED <<argv, env, cmd, fs, did, mounts>>
  /\ UNCHANGED m_others

NextMain ==
  \/ MainDispatch \/ MainStdio \/ MainParseCmdline
  \/ MainWipe \/ MainArchive \/ MainRevert
  \/ MainEarlyMount \/ MainNoEarlyMount
  \/ MainPatch \/ MainNoPatch \/ MainDump \/ MainRename
  \/ MainCleanup \/ MainHandover

(***************************************************************************)
(* Specifications.  Each follows one component and holds the others still. *)
(***************************************************************************)
IdleCmdline ==
  /\ cl_input = <<>>
  /\ cl_pos = 0
  /\ cl_cmd = <<>>
  /\ cl_pc = "idle"

IdleBlock ==
  /\ sb_sys = FALSE
  /\ sb_entries = <<>>
  /\ sb_partname = <<>>
  /\ sb_dev = <<>>
  /\ sb_pos = 0
  /\ sb_pc = "idle"
  /\ sb_ret = 0
  /\ sb_node = <<>>
  /\ sb_devdir = FALSE

IdlePolicy ==
  /\ vp_env = <<>>
  /\ vp_pc = "idle"
  /\ vp_verify = ""
  /\ vp_loaded = <<>>
  /\ vp_cil = 0
  /\ vp_rules = 0
  /\ vp_dumped = <<>>
  /\ vp_ret = 0
  /\ vp_tried = <<>>

IdleUnxz ==
  /\ ux_in = <<>>
  /\ ux_room = 0
  /\ ux_pc = "idle"
  /\ ux_produced = 0
  /\ ux_written = 0
  /\ ux_ret = ""
  /\ ux_result = 0
  /\ ux_avail_out = 0
  /\ ux_idle = 0

IdleSocket ==
  /\ sk_files = <<>>
  /\ sk_orig = <<>>
  /\ sk_SOCKET_OFF = 0
  /\ sk_RAND = <<>>
  /\ sk_calls = 0
  /\ sk_searches = 0
  /\ sk_log = <<>>
  /\ sk_status = "idle"

IdleMain ==
  /\ argv = <<>>
  /\ fs = <<>>
  /\ env = <<>>
  /\ pc = "idle"
  /\ cmd = <<>>
  /\ phases = <<>>
  /\ did = <<>>
  /\ execs = 0
  /\ mounts = {}

Init == IdleCmdline /\ IdleBlock /\ IdlePolicy /\ IdleUnxz /\ IdleSocket /\ InitMain

Next == NextMain

Spec == Init /\ [][Next]_vars

InitSpecCmdline ==
  InitCmdline /\ IdleBlock /\ IdlePolicy /\ IdleUnxz /\ IdleSocket /\ IdleMain

SpecCmdline == InitSpecCmdline /\ [][NextCmdline]_vars

InitSpecBlock ==
  IdleCmdline /\ InitBlock /\ IdlePolicy /\ IdleUnxz /\ IdleSocket /\ IdleMain

SpecBlock == InitSpecBlock /\ [][NextBlock]_vars

InitSpecPolicy ==
  IdleCmdline /\ IdleBlock /\ InitPolicy /\ IdleUnxz /\ IdleSocket /\ IdleMain

SpecPolicy == InitSpecPolicy /\ [][NextPolicy]_vars

InitSpecUnxz ==
  IdleCmdline /\ IdleBlock /\ IdlePolicy /\ InitUnxz /\ IdleSocket /\ IdleMain

SpecUnxz == InitSpecUnxz /\ [][NextUnxz]_vars

InitSpecSocket ==
  IdleCmdline /\ IdleBlock /\ IdlePolicy /\ IdleUnxz /\ InitSocket /\ IdleMain

SpecSocket == InitSpecSocket /\ [][NextSocket]_vars
(***************************************************************************)
(* The claims.                                                             *)
(***************************************************************************)
IsDashX == Len(argv.args) >= 1 /\ argv.args[1] = "-x"

IsApplet == \E i \in 1..Len(init_applet) : Basename(argv.a0) = init_applet[i]

\* C1: entry-point selection is exclusive.  With argv[1] = "-x", whatever
\* argv[2] is, no step of the boot sequence runs; with argv[0] naming an applet
\* only the applet's entry point runs; the boot sequence runs only with neither.
C1_ExclusiveEntry ==
  /\ IsDashX => phases = <<>> /\ execs = 0
  /\ IsApplet => phases = <<>> /\ execs = 0 /\ did \in {<<>>, <<"magiskpolicy_main">>}
  /\ phases # <<>> => ~IsApplet /\ ~IsDashX

\* a token that is exactly androidboot.slot_suffix=<suffix>, androidboot.slot=<letter>
\* or skip_initramfs
IsExactToken(tok) ==
  \/ tok = K_SKIP
  \/ HasPrefix(tok, K_SLOT \o <<"=">>) /\ Len(tok) = Len(K_SLOT) + 2
  \/ HasPrefix(tok, K_SLOT_SUFFIX \o <<"=">>)

RECURSIVE ExactOnly(_)
ExactOnly(toks) ==
  IF toks = <<>> THEN <<>>
  ELSE (IF IsExactToken(Head(toks)) THEN <<Head(toks)>> ELSE <<>>) \o ExactOnly(Tail(toks))

\* C2: unknown tokens are ignored.  The CmdlineInfo parsed from a command line
\* is the one parsed from it with every token removed that is not exactly one of
\* the three recognized forms.
C2_UnknownIgnored ==
  cl_pc = "done" =>
    CmdlineInfo(cl_cmd) = CmdlineInfo(parse_cmdline(ExactOnly(cl_input)))

\* C3: with one androidboot.slot=<letter> and one androidboot.slot_suffix=<suffix>
\* token (suffix of length 0 to 2), the later of the two decides slot_suffix:
\* "_" and the letter, or the suffix verbatim, the empty suffix included.
C3_LaterTokenWins ==
  cl_pc = "done" =>
    \A i, j \in DOMAIN cl_input : \A l \in Letters, s \in Suffixes :
      ( /\ cl_input[i] = SlotTok(l)
        /\ cl_input[j] = SuffixTok(s)
        /\ \A k \in DOMAIN cl_input \ {i, j} : ~HasPrefix(cl_input[k], K_SLOT) )
      => CmdlineInfo(cl_cmd).slot_suffix = (IF i > j THEN <<"_", l>> ELSE s)

SbMatches == {i \in DOMAIN sb_entries : sb_entries[i].PARTNAME = sb_partname}

SbFirst == CHOOSE i \in SbMatches : \A j \in SbMatches : i <= j

\* C4: setup_block returns found and makes a node exactly when some entry's
\* PARTNAME is the partition name; without a match no node and no /dev are made;
\* the node's path and numbers are those the first matching entry itself gives.
C4_FirstMatchOnly ==
  (sb_pc = "done" /\ sb_sys) =>
    /\ sb_ret = 0 <=> SbMatches # {}
    /\ sb_node # NoNode <=> SbMatches # {}
    /\ SbMatches = {} => ~sb_devdir
    /\ SbMatches # {} =>
         sb_node = [path |-> <<"/dev/block", sb_entries[SbFirst].DEVNAME>>,
                    major |-> sb_entries[SbFirst].MAJOR,
                    minor |-> sb_entries[SbFirst].MINOR]

\* the two signature files exist and hold exactly the same text
SigEqual == vp_env.ven.has /\ vp_env.plat.has /\ vp_env.ven.text = vp_env.plat.text

IsPrefixOf(s, t) == Len(s) <= Len(t) /\ SubSeq(t, 1, Len(s)) = s

\* C5: without a monolithic policy and with the precompiled one readable, the
\* precompiled image is loaded, and compile_cil not called, exactly when the two
\* signature texts are equal; texts that differ in any byte fall through to CIL.
\* The branches are tried in the order monolithic, precompiled, CIL and one
\* source is loaded on success.
C5_ExactFingerprint ==
  vp_pc = "done" =>
    /\ (~vp_env.mono /\ vp_env.pre) =>
         ((vp_loaded = <<"Precompiled">> /\ vp_cil = 0) <=> SigEqual)
    /\ (~vp_env.mono /\ vp_env.pre /\ ~SigEqual) =>
         vp_tried = <<"Plain", "Precompiled", "CompiledFromCil">>
    /\ IsPrefixOf(vp_tried, <<"Plain", "Precompiled", "CompiledFromCil">>)
    /\ vp_ret = 0 => Len(vp_loaded) = 1

\* the placeholder, terminator included, lies inside the image at offset i
OccursAt(image, i) == i + TokenLen <= Len(image) /\ SubSeq(image, i + 1, i + TokenLen) = SOCKET_NAME

Contains(image) == \E i \in 0..Len(image) : OccursAt(image, i)

FirstOcc(image) ==
  CHOOSE i \in 0..Len(image) : OccursAt(image, i) /\ \A j \in 0..(i - 1) : ~OccursAt(image, j)

\* every call so far was on one file, which held the placeholder at the start
SameFileRun ==
  /\ sk_log # <<>>
  /\ \A i \in DOMAIN sk_log : sk_log[i].file = sk_log[1].file
  /\ Contains(sk_orig[sk_log[1].file])

\* C6: over consecutive calls on one file that holds the placeholder, the offset
\* is searched for on the first call only and is the same on every call; each
\* call overwrites the token_length bytes at that offset with the random name and
\* no other byte; the file keeps its length.
C6_CachedOffset ==
  SameFileRun =>
    /\ sk_status = "ok"
    /\ sk_searches = 1
    /\ sk_SOCKET_OFF = FirstOcc(sk_orig[sk_log[1].file])
    /\ Len(sk_files[sk_log[1].file]) = Len(sk_orig[sk_log[1].file])
    /\ \A i \in DOMAIN sk_log :
         /\ sk_log[i].searched = (i = 1)
         /\ sk_log[i].off = FirstOcc(sk_orig[sk_log[1].file])
         /\ Len(sk_log[i].after) = Len(sk_log[i].before)
         /\ Len(sk_log[i].rand) = TokenLen
         /\ \A k \in 1..Len(sk_log[i].after) :
              sk_log[i].after[k] =
                IF k - 1 >= sk_log[i].off /\ k - 1 < sk_log[i].off + TokenLen
                THEN sk_log[i].rand[k - sk_log[i].off]
                ELSE sk_log[i].before[k]

\* two calls on one file that held the placeholder, the second changing a byte
C6_Witness ==
  /\ SameFileRun
  /\ Len(sk_log) >= 2
  /\ sk_log[2].after # sk_log[2].before
  /\ sk_log[1].off > 0

PhaseOrder == <<"stdio", "cmdline", "populate", "earlymount", "patch", "cleanup", "handover">>

PhaseIndex(ph) == CHOOSE i \in DOMAIN PhaseOrder : PhaseOrder[i] = ph

Has(seq, x) == \E i \in DOMAIN seq : seq[i] = x

Ended == pc \in {"handed", "exit", "crashed"}

\* C7: a default-mode run goes through the phases in their order, none twice,
\* and calls execv exactly once, as its last action, whatever failed before.  The
\* run without skip_initramfs, without /ramdisk.cpio.xz and with a readable
\* /sepolicy reverts init, extracts no archive, mounts nothing early, loads
\* /sepolicy without compiling CIL, applies the rules, extracts script and
\* binary, randomizes the token, and then hands over.
C7_LinearPhases ==
  /\ \A i, j \in DOMAIN phases : i < j => PhaseIndex(phases[i]) < PhaseIndex(phases[j])
  /\ execs <= 1
  /\ (Ended /\ phases # <<>>) => execs = 1 /\ phases[Len(phases)] = "handover"
  /\ ( /\ Ended /\ phases # <<>>
       /\ cmd.skip_initramfs = 0
       /\ env.fs0["/ramdisk.cpio.xz"] = ""
       /\ env.fs0["/sepolicy"] # "" )
     => /\ Has(did, "revert") /\ ~Has(did, "extract") /\ ~Has(phases, "earlymount")
        /\ Has(did, "Plain") /\ ~Has(did, "compile_cil") /\ Has(did, "magisk_rules")
        /\ Has(did, "dump_magiskrc") /\ Has(did, "dump_magisk")
        /\ Has(did, "randomize_token")
        /\ execs = 1

\* C8: unxz returns 0 only after the decoder signalled the end of the stream,
\* with everything it decoded written to the fd; on an input that stops before
\* the end of the stream it does not return 0.
C8_SuccessMeansEnd ==
  (ux_pc = "done" /\ ux_result = 0) =>
    /\ ux_ret = LZMA_STREAM_END
    /\ ux_produced = ux_in.out
    /\ ux_written = ux_produced
    /\ ux_in.kind # "prefix"

\* C9: without the recovery marker, in each of the three populate modes, the
\* /init.bak linked in phase 1 is still there when the patch phase reaches the
\* rename, which installs that binary at /sbin/magiskinit.
C9_BackupSurvives ==
  /\ pc = "rename" => fs["/init.bak"] = "magiskinit"
  /\ Has(did, "rename") => fs["/sbin/magiskinit"] = "magiskinit"

\* C10: every byte patch_socket_name writes lies inside the mapped image, for
\* every image and also for another file passed once the offset is cached; on
\* an image without the placeholder it writes nothing.
C10_WritesInside ==
  \A i \in DOMAIN sk_log :
    /\ sk_log[i].off >= 0
    /\ sk_log[i].off + TokenLen <= sk_log[i].size
    /\ ~Contains(sk_log[i].before) => sk_log[i].after = sk_log[i].before
====
